---- MODULE Spec2Model ----
(***************************************************************************)
(* Model of src/src/hff_plots.py: the three charting routines that carry   *)
(* logic (plot_parcel_cooling, plot_forecast_heat_fluxes, plot_met), each   *)
(* modelled as one atomic call made by a caller that owns the arguments.    *)
(*                                                                         *)
(* Numbers.  Temperatures are fixed-point integers in hundredths of a      *)
(* degree Celsius, cooling rates in hundredths of a degree per minute, so   *)
(* the series [-0.01, -0.01, -0.01] is <<-1, -1, -1>> and 10 C is 1000.     *)
(* Floating-point rounding and NaN are outside the model.                  *)
(*                                                                         *)
(* Tables.  A pandas Series with the default RangeIndex 0..n-1 is a         *)
(* sequence s whose label t is s[t+1].  A DataFrame is a record             *)
(* [named, ints]: named maps each string column key to its column; ints is  *)
(* the sequence of the columns with integer keys, the column keyed k at     *)
(* position k+1 (the routine creates the integer keys 0, 1, 2, ... in that  *)
(* order).  Column order is the frame's: the named column (created first),  *)
(* then the integer keys in ascending order.                                *)
(***************************************************************************)
EXTENDS Integers, Sequences, FiniteSets, TLC

VARIABLES
    fn,            \* the routine the caller exercises
    pc,            \* "ready" | "returned" | "raised": outcome of the last call
    calls,         \* number of calls made so far
    err,           \* the exception of the last call, NoErr if none
    fig,           \* "none" | "created": whether the last call built a figure
    cooling_rate,  \* caller's Series passed to plot_parcel_cooling
    series_name,   \* its .name ("None" when unnamed)
    T_water_C,     \* caller's scalar initial water temperature
    temps,         \* local `temps` at the exit of the last call: on return,
                   \* the wide table that is reshaped and charted
    energy_df,     \* caller's heat-flux table: its column names, in order
    traces,        \* fig.data of the heat-flux figure
    df,            \* caller's meteorological table: columns [name, val]
    df_index,      \* name of its index
    met_series     \* the series charted by plot_met

vars == <<fn, pc, calls, err, fig, cooling_rate, series_name, T_water_C,
          temps, energy_df, traces, df, df_index, met_series>>

(***************************************************************************)
(* Bounds of the model                                                     *)
(***************************************************************************)
MaxCalls == 2      \* successive calls the caller makes with the same arguments
PatLen == 2        \* period of the generated cooling-rate series
Extra == 2         \* steps by which the longest series exceeds the loop range
MaxCols == 3       \* columns of the generated heat-flux tables

NumTraj == 100     \* range(100)

NoErr == [kind |-> "none", key |-> 0]
KeyError(k) == [kind |-> "KeyError", key |-> k]

EmptyFrame == [named |-> <<>>, ints |-> <<>>]

(***************************************************************************)
(* plot_parcel_cooling                                                     *)
(***************************************************************************)
Rates == {-1, 1}
Temperatures == {-500, 50, 1000}
SeriesNames == {"None", "cooling_rate"}
Lengths == {0, 3, NumTraj - 1, NumTraj, NumTraj + Extra}

\* the series of n steps that repeats pattern pat
Periodic(pat, n) == [t \in 1..n |-> pat[((t - 1) % Len(pat)) + 1]]

\* the values of f, laid out as a sequence
Values(f) == f \o <<>>

Times60(s) == Values([t \in 1..Len(s) |-> s[t] * 60])

\* `cooling_rate * 60` in place: the caller's Series is overwritten
ScaleHourlyInPlace(s) == [hr |-> Times60(s), arg |-> Times60(s)]

\* cooling_rate_hr = cooling_rate * 60: a new Series; the operand is untouched
ScaleHourly(s) == [hr |-> Times60(s), arg |-> s]

\* the running sums of s[a..b] on top of base (split in halves to keep the
\* evaluation shallow)
RECURSIVE CumSumRange(_, _, _, _)
CumSumRange(s, a, b, base) ==
    IF a > b THEN <<>>
    ELSE IF a = b THEN <<base + s[a]>>
    ELSE LET m == (a + b) \div 2
             left == CumSumRange(s, a, m, base)
         IN  left \o CumSumRange(s, m + 1, b, left[Len(left)])

\* Series.cumsum()
CumSum(s) == CumSumRange(s, 1, Len(s), 0)

\* pd.DataFrame(series): one column, keyed by the series' name, or by 0 when
\* the series has none
FrameOf(s, name) ==
    IF name = "None"
    THEN [named |-> <<>>, ints |-> <<s>>]
    ELSE [named |-> [k \in {name} |-> s], ints |-> <<>>]

\* cooling_cumsum[i]: label lookup in the RangeIndex
HasLabel(s, i) == i \in 0..(Len(s) - 1)
GetItem(s, i) == s[i + 1]

\* cooling_cumsum - cooling_cumsum[i]
SubScalar(s, x) == Values([t \in 1..Len(s) |-> s[t] - x])

\* the slice assignment left out
KeepPrefix(c, i) == c

\* c[0:i] = 0: positional slice assignment
ZeroPrefix(c, i) == Values([t \in 1..Len(c) |-> IF t - 1 < i THEN 0 ELSE c[t]])

\* the reference taken one step early: cooling_cumsum[i - 1], 0 before the
\* first step, so that the release step already carries its own cooling
IterationFromPreviousStep(cs, i) ==
    [c  |-> ZeroPrefix(SubScalar(cs, IF i = 0 THEN 0 ELSE GetItem(cs, i - 1)), i),
     cs |-> cs]

\* one loop iteration: c is a fresh Series, cooling_cumsum is not altered
Iteration(cs, i) ==
    [c |-> ZeroPrefix(SubScalar(cs, GetItem(cs, i)), i), cs |-> cs]

\* the integer column keys of a frame
IntKeys(frame) == 0..(Len(frame.ints) - 1)
Column(frame, k) == frame.ints[k + 1]

\* temps[i] = c: overwrites the column keyed i, or appends it as a new column
SetColumn(frame, i, c) ==
    IF i \in IntKeys(frame)
    THEN [frame EXCEPT !.ints[i + 1] = c]
    ELSE [frame EXCEPT !.ints = Append(frame.ints, c)]

\* range bounded by the series length
LoopRangeBounded(n) == IF n < NumTraj THEN n ELSE NumTraj

\* for i in range(100): the number of iterations requested
LoopRange(n) == NumTraj

\* one pass of the for loop on the loop state st = [frame, cs, err]: nothing
\* runs after a raise; the lookup cooling_cumsum[i] raises KeyError when i is
\* not a label
LoopStep(st, i) ==
    IF st.err # NoErr THEN st
    ELSE IF ~HasLabel(st.cs, i) THEN [st EXCEPT !.err = KeyError(i)]
    ELSE LET it == Iteration(st.cs, i)
         IN  [frame |-> SetColumn(st.frame, i, it.c), cs |-> it.cs, err |-> NoErr]

\* the passes a, a+1, ..., b-1 in that order (split in halves to keep the
\* evaluation shallow)
RECURSIVE LoopFrom(_, _, _)
LoopFrom(st, a, b) ==
    IF a >= b THEN st
    ELSE IF b = a + 1 THEN LoopStep(st, a)
    ELSE LET m == (a + b) \div 2
             half == LoopFrom(st, a, m)
         IN  IF half.err # NoErr THEN half ELSE LoopFrom(half, m, b)

\* for i in range(100): ...
Loop(cs, frame) ==
    LoopFrom([frame |-> frame, cs |-> cs, err |-> NoErr], 0, LoopRange(Len(cs)))

AddToColumn(c, T) == Values([t \in 1..Len(c) |-> c[t] + T])

\* temps + T_water_C
AddScalar(frame, T) ==
    [named |-> [k \in DOMAIN frame.named |-> AddToColumn(frame.named[k], T)],
     ints  |-> Values([k \in 1..Len(frame.ints) |-> AddToColumn(frame.ints[k], T)])]

\* the table left as it is
NoClamp(frame) == frame

FloorColumn(c) == Values([t \in 1..Len(c) |-> IF c[t] < 0 THEN 0 ELSE c[t]])

\* temps[temps < 0] = 0
Clamp(frame) ==
    [named |-> [k \in DOMAIN frame.named |-> FloorColumn(frame.named[k])],
     ints  |-> Values([k \in 1..Len(frame.ints) |-> FloorColumn(frame.ints[k])])]

\* number of columns of a frame
ColumnCount(frame) ==
    Cardinality(DOMAIN frame.named) + Len(frame.ints)

\* pd.melt(temps.reset_index(), id_vars='index'): one (index, variable, value)
\* triple per cell, column after column
Melt(frame, n) ==
    LET m == Len(frame.ints)
    IN  [named |-> IF DOMAIN frame.named = {} THEN <<>>
                   ELSE LET k == CHOOSE k \in DOMAIN frame.named : TRUE
                        IN  [p \in 1..n |-> <<p - 1, k, frame.named[k][p]>>],
         ints  |-> Values([p \in 1..(m * n) |->
                      <<(p - 1) % n, (p - 1) \div n,
                        Column(frame, (p - 1) \div n)[((p - 1) % n) + 1]>>])]

LongCount(long) == Len(long.named) + Len(long.ints)

\* the whole routine on arguments (s, name, T): outcome, table, figure and
\* the caller's Series as the call leaves it.  The figure is created after
\* the loop and the reshaping, so only when neither raised; it charts the
\* long form Melt(temps, Len(s))
ParcelRun(s, name, T) ==
    LET sc == ScaleHourly(s)
        f0 == FrameOf(sc.hr, name)
        lp == Loop(CumSum(sc.hr), f0)
    IN  IF lp.err # NoErr
        THEN [pc |-> "raised", err |-> lp.err, fig |-> "none",
              temps |-> lp.frame, arg |-> sc.arg]
        ELSE LET t2 == Clamp(AddScalar(lp.frame, T))
             IN  [pc |-> "returned", err |-> NoErr, fig |-> "created",
                  temps |-> t2, arg |-> sc.arg]

plot_parcel_cooling ==
    /\ fn = "parcel"
    /\ calls < MaxCalls
    /\ LET r == ParcelRun(cooling_rate, series_name, T_water_C)
       IN  /\ pc' = r.pc
           /\ err' = r.err
           /\ fig' = r.fig
           /\ temps' = r.temps
           /\ cooling_rate' = r.arg
    /\ calls' = calls + 1
    /\ UNCHANGED <<fn, series_name, T_water_C, energy_df, traces, df, df_index,
                   met_series>>

(***************************************************************************)
(* plot_forecast_heat_fluxes.  The table is its column names in order; it  *)
(* has at least one row, so the long-form table holds every name and the   *)
(* chart gets one trace per column, in column order.                       *)
(***************************************************************************)
FluxNames == {"downwelling SW", "downwelling LW", "upwelling LW",
              "sensible heat", "latent heat", "net flux", "ground flux"}

\* color_discrete_map
ColorMap == ("downwelling SW" :> "blue") @@ ("downwelling LW" :> "orange") @@
            ("upwelling LW" :> "green") @@ ("sensible heat" :> "red") @@
            ("latent heat" :> "purple") @@ ("net flux" :> "black")

\* pd.melt(energy_df.reset_index(), id_vars='index'): the values of the
\* 'variable' column, in order of first appearance
MeltVariables(cols) == cols

\* px.line(..., color='variable', color_discrete_map=...): one trace per
\* variable; width 0 and opacity 0 stand for "not set"
PxLine(variables) ==
    [k \in 1..Len(variables) |->
        [name    |-> variables[k],
         color   |-> IF variables[k] \in DOMAIN ColorMap
                     THEN ColorMap[variables[k]] ELSE "palette",
         width   |-> 0,
         opacity |-> 0]]

\* every trace given the plain styling, the highlight lost
StyleTracePlain(trace) == [trace EXCEPT !.width = 2, !.opacity = 8]

\* the body of `for trace in fig.data`; opacity is in tenths
StyleTrace(trace) ==
    IF trace.name = "net flux"
    THEN [trace EXCEPT !.width = 3, !.color = "black"]
    ELSE [trace EXCEPT !.width = 2, !.opacity = 8]

StyleAll(data) == [k \in 1..Len(data) |-> StyleTrace(data[k])]

plot_forecast_heat_fluxes ==
    /\ fn = "flux"
    /\ calls < MaxCalls
    /\ traces' = StyleAll(PxLine(MeltVariables(energy_df)))
    /\ pc' = "returned"
    /\ err' = NoErr
    /\ fig' = "created"
    /\ calls' = calls + 1
    /\ UNCHANGED <<fn, cooling_rate, series_name, T_water_C, temps,
                   energy_df, df, df_index, met_series>>

(***************************************************************************)
(* plot_met.  The table is the sequence of its columns [name, val], val    *)
(* the reading of one row; the column at position k is df[k+1].  Wind      *)
(* speeds in m/s are in units of 1e-5.                                     *)
(***************************************************************************)
MetNames == {"Temperature F", "Air Temp (F)", "Surface Wind (mph)",
             "Wind Speed", "Relative Humidity (%)", "Sky Cover (%)"}
FillerNames == <<"c0", "c1", "c2", "c3", "c4", "c5", "c6", "c7", "c8">>
Widths == {8, 9}
Fahrenheit == {32, 212}
IndexNames == {"date", "None"}
Picked == {0, 3, 6, 8}

NameCount(cols, name) == Cardinality({k \in 1..Len(cols) : cols[k].name = name})
Find(cols, name) == CHOOSE k \in 1..Len(cols) : cols[k].name = name

\* df[[columns[0], columns[3], columns[6], columns[8]]]
SelectColumns(d) == <<d[1], d[4], d[7], d[9]>>

\* df_met.rename(columns={columns[0]: 'Temperature F'})
RenameFirst(d, cols) ==
    [k \in 1..Len(cols) |->
        IF cols[k].name = d[1].name
        THEN [cols[k] EXCEPT !.name = "Temperature F"] ELSE cols[k]]

\* (F - 32) * (5 / 9)
ToCelsius(f) == ((f - 32) * 5) \div 9

\* mph * 0.44704
ToMetresPerSecond(w) == w * 44704

\* the wind speed read by position: column 6 of the table
WindColumnByPosition(cols) == 3

\* df_met['Surface Wind (mph)']: the position, in df_met, of the column of
\* that name; 0 when there is none
WindColumn(cols) ==
    IF NameCount(cols, "Surface Wind (mph)") = 0 THEN 0
    ELSE Find(cols, "Surface Wind (mph)")

\* df_met.drop(['Temperature F', 'Surface Wind (mph)'], axis=1)
DropColumns(cols, names) == SelectSeq(cols, LAMBDA c : c.name \notin names)

MetColors == <<"blue", "orange", "green", "red">>

Min(a, b) == IF a < b THEN a ELSE b

\* one go.Scatter per variable: zip(variables, colors)
MetTraces(cols) ==
    [k \in 1..Min(Len(cols), Len(MetColors)) |->
        [name |-> cols[k].name, val |-> cols[k].val, color |-> MetColors[k]]]

Raised(kind) == [pc |-> "raised", err |-> [kind |-> kind, key |-> 0],
                 fig |-> "none", series |-> <<>>]

\* the whole routine on table d with index named idx
MetRun(d, idx) ==
    IF Len(d) < 9 THEN Raised("IndexError")
    ELSE
    LET df_met == RenameFirst(d, SelectColumns(d))
        w == WindColumn(df_met)
    IN  IF NameCount(df_met, "Temperature F") # 1 THEN Raised("ValueError")
        ELSE IF w = 0 THEN Raised("KeyError")
        ELSE IF idx # "date" THEN Raised("KeyError")
        ELSE
        LET tf == df_met[Find(df_met, "Temperature F")]
            added == df_met \o
                     <<[name |-> "Temperature C", val |-> ToCelsius(tf.val)],
                       [name |-> "windspeed ms",
                        val |-> ToMetresPerSecond(df_met[w].val)]>>
            kept == DropColumns(added, {"Temperature F", "Surface Wind (mph)"})
        IN  [pc |-> "returned", err |-> NoErr, fig |-> "created",
             series |-> MetTraces(kept)]

plot_met ==
    /\ fn = "met"
    /\ calls < MaxCalls
    /\ LET r == MetRun(df, df_index)
       IN  /\ pc' = r.pc
           /\ err' = r.err
           /\ fig' = r.fig
           /\ met_series' = r.series
    /\ calls' = calls + 1
    /\ UNCHANGED <<fn, cooling_rate, series_name, T_water_C, temps,
                   energy_df, traces, df, df_index>>

(***************************************************************************)
(* The caller: it owns the arguments and calls one routine repeatedly with *)
(* them.                                                                   *)
(***************************************************************************)
InitCommon ==
    /\ pc = "ready"
    /\ calls = 0
    /\ err = NoErr
    /\ fig = "none"
    /\ temps = EmptyFrame
    /\ traces = <<>>
    /\ met_series = <<>>

NoParcelArgs == cooling_rate = <<>> /\ series_name = "None" /\ T_water_C = 0
NoFluxArgs == energy_df = <<>>
NoMetArgs == df = <<>> /\ df_index = "None"

InitParcel ==
    /\ fn = "parcel"
    /\ \E n \in Lengths, pat \in [1..PatLen -> Rates] :
           cooling_rate = Periodic(pat, n)
    /\ series_name \in SeriesNames
    /\ T_water_C \in Temperatures
    /\ NoFluxArgs /\ NoMetArgs

Injective(f) == \A a, b \in DOMAIN f : f[a] = f[b] => a = b

InitFlux ==
    /\ fn = "flux"
    /\ \E k \in 1..MaxCols : \E cols \in [1..k -> FluxNames] :
           Injective(cols) /\ energy_df = cols
    /\ NoParcelArgs /\ NoMetArgs

InitMet ==
    /\ fn = "met"
    /\ \E w \in Widths, names \in [Picked -> MetNames], f \in Fahrenheit :
           /\ Injective(names)
           /\ df = [k \in 1..w |->
                       [name |-> IF (k - 1) \in Picked THEN names[k - 1]
                                 ELSE FillerNames[k],
                        val  |-> IF k = 1 THEN f ELSE k - 1]]
    /\ df_index \in IndexNames
    /\ NoParcelArgs /\ NoFluxArgs

Init == InitCommon /\ InitParcel
Next == plot_parcel_cooling
Spec == Init /\ [][Next]_vars

StartFlux == InitCommon /\ InitFlux
NextFlux == plot_forecast_heat_fluxes
SpecFlux == StartFlux /\ [][NextFlux]_vars

StartMet == InitCommon /\ InitMet
NextMet == plot_met
SpecMet == StartMet /\ [][NextMet]_vars

(***************************************************************************)
(* Properties of plot_parcel_cooling (specification Spec)                  *)
(***************************************************************************)
ParcelCalled == fn = "parcel" /\ pc # "ready"
ParcelReturned == fn = "parcel" /\ pc = "returned"
NumSteps == Len(cooling_rate)
Floor0(x) == IF x < 0 THEN 0 ELSE x

\* the value of trajectory i at time step t in the table of the last call
Cell(i, t) == Column(temps, i)[t + 1]

\* C1: no value of the table a call returns is negative, in any column and
\* at any time step, whatever the rates and the initial temperature are.
C1_NoNegativeTemperature ==
    ParcelReturned =>
        /\ \A k \in 1..Len(temps.ints) :
               \A t \in 1..Len(temps.ints[k]) : temps.ints[k][t] >= 0
        /\ \A k \in DOMAIN temps.named :
               \A t \in 1..Len(temps.named[k]) : temps.named[k][t] >= 0

\* a call returned a table in which a trajectory that cooled below zero one
\* step after its release was floored to 0
C1_Witness ==
    /\ ParcelReturned
    /\ T_water_C = 50
    /\ cooling_rate[1] < 0 /\ cooling_rate[2] < 0
    /\ Cell(0, 1) = 0

\* C2 as stated: every value of trajectory i before its release step i is
\* exactly 0, whatever the initial water temperature.
C2_PreReleaseIsZero ==
    ParcelReturned =>
        \A i \in 0..(NumTraj - 1) : \A t \in 0..(i - 1) : Cell(i, t) = 0

\* C2 amended: every value of trajectory i before its release step i is the
\* initial water temperature floored at 0 (the offset is zeroed before the
\* temperature is added), which is 0 only for an initial temperature <= 0.
C2_PreReleaseIsInitialTemperature ==
    ParcelReturned =>
        \A i \in 0..(NumTraj - 1) :
            \A t \in 0..(i - 1) : Cell(i, t) = Floor0(T_water_C)

\* a returned table whose pre-release values are a positive initial
\* temperature although the series cools
C2_Witness ==
    /\ ParcelReturned
    /\ T_water_C > 0
    /\ cooling_rate[1] # 0
    /\ Cell(NumTraj - 1, 0) = T_water_C
    /\ Cell(5, 2) = T_water_C

\* C3: on a series of n steps, 0 < n < 100, the call completes with n
\* trajectories and never looks the cumulative sum up at an index >= n.
C3_ShortSeriesCompletes ==
    (ParcelCalled /\ NumSteps > 0 /\ NumSteps < NumTraj) =>
        /\ pc = "returned"
        /\ err = NoErr
        /\ Len(temps.ints) = NumSteps

\* C4: for the series [-0.01, -0.01, -0.01] and initial temperature 10 the
\* call completes with trajectory 0 = [9.4, 8.8, 8.2] and trajectory 1 =
\* [0, 9.4, 8.8].
C4_Scenario ==
    (ParcelCalled /\ cooling_rate = <<-1, -1, -1>> /\ T_water_C = 1000) =>
        /\ pc = "returned"
        /\ Column(temps, 0) = <<940, 880, 820>>
        /\ Column(temps, 1) = <<0, 940, 880>>

\* C5: the table a call assembles has the columns 0..99 and no other, and
\* its long form has rows * 100 triples, whether or not the series is named.
C5_ColumnsAreReleaseIndices ==
    (ParcelCalled /\ NumSteps >= NumTraj) =>
        /\ pc = "returned"
        /\ DOMAIN temps.named = {}
        /\ IntKeys(temps) = 0..(NumTraj - 1)
        /\ ColumnCount(temps) = NumTraj
        /\ LongCount(Melt(temps, NumSteps)) = NumSteps * NumTraj

\* C6: a call on an empty series raises; it returns neither a figure nor a
\* table, and no figure object has been created when it raises.
C6_EmptySeriesRaises ==
    (ParcelCalled /\ NumSteps = 0) =>
        /\ pc = "raised"
        /\ err # NoErr
        /\ fig = "none"

\* a call on the empty series has raised, at the first lookup
C6_Witness ==
    /\ ParcelCalled
    /\ NumSteps = 0
    /\ pc = "raised"
    /\ err = KeyError(0)

C10_PostHocFloor ==
    ParcelReturned =>
        LET C == CumSum(Times60(cooling_rate))
        IN  \A i \in 0..(NumTraj - 1) :
                /\ Cell(i, i) = Floor0(T_water_C)
                /\ \A t \in i..(NumSteps - 1) :
                       Cell(i, t) = Floor0(T_water_C + C[t + 1] - C[i + 1])

\* a returned trajectory that was floored to 0 and is positive again at the
\* next step
C10_Witness ==
    /\ ParcelReturned
    /\ T_water_C > 0
    /\ \E i \in 0..1 : \E t \in i..(i + 2) :
           /\ Cell(i, t) = 0
           /\ Cell(i, t + 1) > 0

(***************************************************************************)
(* Properties of plot_forecast_heat_fluxes (specification SpecFlux)        *)
(***************************************************************************)
FluxReturned == fn = "flux" /\ pc = "returned"
HasNetFlux == \E k \in 1..Len(energy_df) : energy_df[k] = "net flux"

\* C8: for a table with a column 'net flux', the figure has one series per
\* column; the series 'net flux' has width 3, colour black and no reduced
\* opacity, every other series has width 2 and opacity 0.8.
C8_NetFluxHighlighted ==
    (FluxReturned /\ HasNetFlux) =>
        /\ Len(traces) = Len(energy_df)
        /\ \A k \in 1..Len(traces) :
               /\ traces[k].name = energy_df[k]
               /\ (traces[k].name = "net flux") =>
                      /\ traces[k].width = 3
                      /\ traces[k].color = "black"
                      /\ traces[k].opacity # 8
               /\ (traces[k].name # "net flux") =>
                      /\ traces[k].width = 2
                      /\ traces[k].opacity = 8

\* a figure returned for a table holding 'net flux' among other columns
C8_Witness ==
    /\ FluxReturned
    /\ HasNetFlux
    /\ Len(energy_df) >= 2
    /\ \E k \in 1..Len(traces) : traces[k].name = "net flux" /\ traces[k].width = 3
    /\ \E k \in 1..Len(traces) : traces[k].name # "net flux" /\ traces[k].width = 2

(***************************************************************************)
(* Properties of plot_met (specification SpecMet)                          *)
(***************************************************************************)
MetCalled == fn = "met" /\ pc # "ready"
WindSeries(v) ==
    \E k \in 1..Len(met_series) :
        met_series[k].name = "windspeed ms" /\ met_series[k].val = v
CelsiusSeries(v) ==
    \E k \in 1..Len(met_series) :
        met_series[k].name = "Temperature C" /\ met_series[k].val = v
\* positions, in df, of the columns 3, 6 and 8
OtherPicked == {4, 7, 9}

\* C9 as stated: the wind speed is taken from column 6 whatever that column
\* is named: a table with a date index and no second 'Temperature F' column
\* is charted with column 6 converted to m/s.
C9_WindFromColumnSix ==
    (/\ MetCalled
     /\ Len(df) >= 9
     /\ df_index = "date"
     /\ \A k \in OtherPicked : df[k].name # "Temperature F") =>
        /\ pc = "returned"
        /\ WindSeries(ToMetresPerSecond(df[7].val))

\* C9 amended: the temperature is column 0 whatever its name, but the wind
\* speed is looked up by the name 'Surface Wind (mph)': the charted wind
\* speed is that of the column of that name among columns 3, 6 and 8, and
\* when none of them has that name the call raises and charts nothing.
C9_WindByName ==
    MetCalled =>
        /\ (pc = "returned") =>
               /\ CelsiusSeries(ToCelsius(df[1].val))
               /\ \E k \in OtherPicked :
                      /\ df[k].name = "Surface Wind (mph)"
                      /\ WindSeries(ToMetresPerSecond(df[k].val))
        /\ (Len(df) >= 9 /\ \A k \in OtherPicked : df[k].name # "Surface Wind (mph)") =>
               /\ pc = "raised"
               /\ fig = "none"
               /\ met_series = <<>>

\* a chart returned for a table whose column 0 is not named 'Temperature F'
\* and whose column 6 is not named 'Surface Wind (mph)': the wind speed
\* charted is that of column 3, which has the name
C9_Witness ==
    /\ MetCalled
    /\ pc = "returned"
    /\ df[1].name = "Air Temp (F)"
    /\ df[4].name = "Surface Wind (mph)"
    /\ df[7].name = "Wind Speed"
    /\ WindSeries(ToMetresPerSecond(df[4].val))
====
